---- MODULE Spec2Model ----
(***************************************************************************)
(* Forecasting engine of the sales_forecasting project: the LSTM and       *)
(* Prophet forecasters (src/models) and the FastAPI layer (api/main.py).   *)
(* One specification per component; the variables of the other components *)
(* stay at their initial values.                                            *)
(***************************************************************************)
EXTENDS Integers, Sequences, FiniteSets, TLC

VARIABLES
    sequence_length,   \* LSTMForecaster.sequence_length
    is_trained,        \* LSTMForecaster.is_trained
    feature_columns,   \* LSTMForecaster.feature_columns (None or a list of names)
    scaler_X,          \* fitted state of LSTMForecaster.scaler_X
    scaler_y,          \* fitted state of LSTMForecaster.scaler_y
    model,             \* LSTMForecaster.model (None or a Keras model)
    lstmOk,            \* a train or load_model call has returned normally
    p_is_trained,      \* ProphetForecaster.is_trained
    p_history,         \* rows the Prophet model was fitted on (0: not fitted)
    p_metrics,         \* ProphetForecaster.performance_metrics is filled
    p_ok,              \* a ProphetForecaster.train call has returned normally
    tasks,             \* the background training tasks, in submission order
    now,               \* the wall clock, in seconds
    registry,          \* the persisted trained models with their metrics
    active_connections, \* ConnectionManager.active_connections
    sockets,           \* where each websocket's handler stands
    broadcast,         \* the position of the running ConnectionManager.broadcast
    out                \* what the last call got and returned

lstmVars == <<sequence_length, is_trained, feature_columns, scaler_X, scaler_y,
              model, lstmOk>>
prophetVars == <<p_is_trained, p_history, p_metrics, p_ok>>
wsVars == <<active_connections, sockets, broadcast>>
apiVars == <<tasks, now, registry, wsVars>>
vars == <<sequence_length, is_trained, feature_columns, scaler_X, scaler_y,
          model, lstmOk, p_is_trained, p_history, p_metrics, p_ok,
          tasks, now, registry, active_connections, sockets, broadcast, out>>

(* ------------------------------ bounds -------------------------------- *)
MaxN == 5
MaxL == 2
MaxShape == 2
MaxHorizon == 3
MaxW == 1
MaxTasks == 2
MaxClock == 2
MaxMetric == 2
MaxSockets == 3

\* None for a list of columns, an unfitted MinMaxScaler, no Keras model.
None == <<>>
Unfit == <<>>
NoModel == [steps |-> 0, n_features |-> 0, w |-> 0]
NoCall == [op |-> "none"]

(* --------------------------- small helpers ---------------------------- *)
Rat(n, d) == [n |-> n, d |-> d]

RatEq(a, b) == a.n * b.d = b.n * a.d

Min2(a, b) == IF a <= b THEN a ELSE b

MinOf(S) == CHOOSE x \in S : \A y \in S : x <= y

MaxOf(S) == CHOOSE x \in S : \A y \in S : y <= x

\* Python's a[lo:hi] on a sequence of length n, with negative indices
\* counted from the end and both ends clamped (0-based lo, hi).
PyIdx(i, n) == IF i < 0 THEN (IF n + i < 0 THEN 0 ELSE n + i)
               ELSE (IF i > n THEN n ELSE i)

PySlice(s, lo, hi) ==
    LET n == Len(s)
        a == PyIdx(lo, n)
        b == PyIdx(hi, n)
    IN IF b <= a THEN <<>> ELSE SubSeq(s, a + 1, b)

\* s[-k:], which is the whole of s when k = 0 (s[-0:] is s[0:]).
PyTail(s, k) == IF k = 0 THEN s ELSE PySlice(s, 0 - k, Len(s))

\* a 2-D array written out as a tuple of tuples.
Row(r) == SubSeq(r, 1, Len(r))

RECURSIVE Rows(_)
Rows(a) == IF Len(a) = 0 THEN <<>> ELSE <<Row(a[1])>> \o Rows(Tail(a))

(* ---------------------------- data frames ----------------------------- *)
\* one row per day: the day as date, the sales and the day of the week.
Frame(n, s) == Row([i \in 1..n |-> [date |-> i, sales |-> (i * s) % 4, dow |-> i % 2]])

\* a frame with its dates replaced.
Redated(df, dates) == Row([i \in 1..Len(df) |-> [df[i] EXCEPT !.date = dates[i]]])

\* frames with a date that occurs twice, in order and out of order.
RepeatedDateFrames == { Redated(Frame(3, 1), <<1, 2, 2>>),
                        Redated(Frame(3, 1), <<2, 1, 2>>) }

\* a frame with the sales of its last row replaced.
TailVariant(df, v) == [df EXCEPT ![Len(df)].sales = v]

DataFrames == { Frame(n, s) : n \in 0..MaxN, s \in 1..MaxShape }
                 \cup { TailVariant(Frame(n, 1), 3) : n \in 2..MaxN }
                 \cup RepeatedDateFrames

FeatureColsArgs == { None, <<"sales", "dow">>, <<"dow", "sales">> }

ValidationSplits == { 20, 50 }

\* df[cols].values: one row per sample, one entry per named column.
ColValues(df, cols) ==
    Rows([i \in 1..Len(df) |-> [j \in 1..Len(cols) |-> df[i][cols[j]]]])

(* --------------------------- MinMaxScaler ----------------------------- *)
\* fit: per feature the minimum and the maximum seen.
ScalerFit(rows) ==
    LET F == Len(rows[1])
    IN Row([j \in 1..F |-> [min |-> MinOf({rows[i][j] : i \in 1..Len(rows)}),
                            max |-> MaxOf({rows[i][j] : i \in 1..Len(rows)})]])

\* a zero range scales by 1 (sklearn's _handle_zeros_in_scale).
ScaleRange(f) == IF f.max = f.min THEN 1 ELSE f.max - f.min

ScalerTransformRow(sc, row) ==
    [j \in 1..Len(row) |-> Rat(row[j] - sc[j].min, ScaleRange(sc[j]))]

ScalerTransform(sc, rows) ==
    Rows([i \in 1..Len(rows) |-> ScalerTransformRow(sc, rows[i])])

\* inverse_transform with the fitted range taken as it is, a zero range
\* included.
ScalerInverseRaw(sc, v) == Rat(v.n * (sc[1].max - sc[1].min) + sc[1].min * v.d, v.d)

\* inverse_transform of one normalized value under a one-feature scaler.
ScalerInverse(sc, v) == Rat(v.n * ScaleRange(sc[1]) + sc[1].min * v.d, v.d)

(* -------------------------- create_sequences -------------------------- *)
\* create_sequences with the target taken one row early.
create_sequences_early(data, target, L) ==
    LET cnt == IF Len(data) - L > 0 THEN Len(data) - L ELSE 0
    IN [X |-> Row([i \in 1..cnt |-> SubSeq(data, i, i + L - 1)]),
        y |-> Row([i \in 1..cnt |-> target[i + L - 1]])]

create_sequences(data, target, L) ==
    LET cnt == IF Len(data) - L > 0 THEN Len(data) - L ELSE 0
    IN [X |-> Row([i \in 1..cnt |-> SubSeq(data, i, i + L - 1)]),
        y |-> Row([i \in 1..cnt |-> target[i + L]])]

(* ------------------------- the Keras backend -------------------------- *)
RECURSIVE SumNums(_)
SumNums(s) == IF s = <<>> THEN 0 ELSE s[1].n + SumNums(Tail(s))

\* the entries of a 2-D array in row-major order.
Flat(rows) ==
    IF Len(rows) = 0 THEN <<>>
    ELSE LET F == Len(rows[1])
         IN Row([k \in 1..(Len(rows) * F) |->
                    rows[((k - 1) \div F) + 1][((k - 1) % F) + 1]])

\* numpy's a.reshape(1, L, -1): fails unless the size is a multiple of L.
ReshapeOk(rows, L) == Len(Flat(rows)) % L = 0

Reshape(rows, L) ==
    LET flat == Flat(rows)
        Fp == Len(flat) \div L
    IN Rows([i \in 1..L |-> [j \in 1..Fp |-> flat[(i - 1) * Fp + j]]])

\* build_model: a fresh network for input_shape = (sequence_length, n_features).
build_model(L, n_features) == [steps |-> L, n_features |-> n_features, w |-> 0]

\* Keras rejects an input whose shape is not the model's input_shape.
KerasAccepts(m, input) ==
    /\ Len(input) = m.steps
    /\ \A i \in 1..Len(input) : Len(input[i]) = m.n_features

\* model.predict(input)[0][0]: a fixed function of the weights and the input.
NetOut(m, input) == Rat((m.w + SumNums(Flat(input))) % 3, 2)

(* ------------------------------ predict ------------------------------- *)
\* lines 355-358: the last row with slot 0 overwritten, appended after
\* dropping the oldest row.
NextSequence(cur, pred) ==
    LET last == cur[Len(cur)]
        new_features == Row([j \in 1..Len(last) |-> IF j = 1 THEN pred ELSE last[j]])
    IN Append(Tail(cur), new_features)

RECURSIVE RecursiveLoop(_, _, _, _, _, _)
RecursiveLoop(m, L, cur, k, preds, calls) ==
    IF k = 0 THEN [status |-> "ok", preds |-> preds, calls |-> calls]
    ELSE IF ~ReshapeOk(cur, L)
         THEN [status |-> "ValueError", preds |-> <<>>, calls |-> calls]
    ELSE IF ~KerasAccepts(m, Reshape(cur, L))
         THEN [status |-> "ValueError", preds |-> <<>>, calls |-> Append(calls, cur)]
    ELSE LET pred == NetOut(m, Reshape(cur, L))
         IN RecursiveLoop(m, L, NextSequence(cur, pred), k - 1,
                          Append(preds, pred), Append(calls, cur))

\* range(len - L, len) of line 362, as the first index and one past the last.
DirectFirst(n, L) == n - L

DirectWindow(scaled, i, L) == PySlice(scaled, i - L, i)

RECURSIVE DirectLoop(_, _, _, _, _, _, _)
DirectLoop(m, L, scaled, i, H, preds, calls) ==
    IF i >= Len(scaled) \/ Len(preds) >= H
    THEN [status |-> "ok", preds |-> preds, calls |-> calls]
    ELSE LET win == DirectWindow(scaled, i, L)
         IN IF ~ReshapeOk(win, L)
            THEN [status |-> "ValueError", preds |-> <<>>, calls |-> calls]
            ELSE IF ~KerasAccepts(m, Reshape(win, L))
            THEN [status |-> "ValueError", preds |-> <<>>, calls |-> Append(calls, win)]
            ELSE DirectLoop(m, L, scaled, i + 1, H,
                            Append(preds, NetOut(m, Reshape(win, L))), Append(calls, win))

NotTrainedError == "ValueError: Model must be trained before making predictions"

\* the guard of line 334.
NotTrainedGuard(trained) == ~trained

\* LSTMForecaster.predict: what it returns or raises, and the windows it
\* handed to model.predict.
predict(df, H, recursive) ==
    IF NotTrainedGuard(is_trained)
    THEN [status |-> NotTrainedError, preds |-> <<>>, calls |-> <<>>, scaled |-> <<>>,
          failed_at |-> "guard"]
    ELSE IF scaler_X = Unfit
    THEN [status |-> "NotFittedError", preds |-> <<>>, calls |-> <<>>, scaled |-> <<>>,
          failed_at |-> "transform"]
    ELSE IF Len(df) = 0
    THEN [status |-> "ValueError", preds |-> <<>>, calls |-> <<>>, scaled |-> <<>>,
          failed_at |-> "transform"]
    ELSE
      LET scaled == ScalerTransform(scaler_X, ColValues(df, feature_columns))
          L == sequence_length
          r == IF recursive
               THEN RecursiveLoop(model, L, PyTail(scaled, L), H, <<>>, <<>>)
               ELSE DirectLoop(model, L, scaled, DirectFirst(Len(scaled), L), H, <<>>, <<>>)
      IN IF r.status # "ok"
         THEN [status |-> r.status, preds |-> <<>>, calls |-> r.calls, scaled |-> <<>>,
               failed_at |-> "model"]
         ELSE IF Len(r.preds) = 0
         THEN [status |-> "ValueError", preds |-> <<>>, calls |-> r.calls, scaled |-> <<>>,
               failed_at |-> "inverse_transform"]
         ELSE [status |-> "ok",
               preds |-> Row([i \in 1..Len(r.preds) |->
                                 ScalerInverse(scaler_y, r.preds[i])]),
               calls |-> r.calls, scaled |-> r.preds, failed_at |-> ""]

Predict(df, H, recursive) ==
    /\ out = NoCall
    /\ out' = [op |-> "predict", df |-> df, H |-> H, recursive |-> recursive,
               r |-> predict(df, H, recursive)]
    /\ UNCHANGED <<lstmVars, prophetVars, apiVars>>

(* ------------------------- _calculate_metrics ------------------------- *)
RatAbs(a) == Rat(IF a.n < 0 THEN 0 - a.n ELSE a.n, IF a.d < 0 THEN 0 - a.d ELSE a.d)

RatSub(a, b) == Rat(a.n * b.d - b.n * a.d, a.d * b.d)

RatAdd(a, b) == Rat(a.n * b.d + b.n * a.d, a.d * b.d)

\* np.abs((y_true - y_pred) / y_true) of one point: a division by zero gives
\* inf, and nan when the numerator is zero as well.
AbsPctError(y_true, y_pred) ==
    LET diff == RatSub(y_true, y_pred)
    IN IF y_true.n = 0
       THEN [kind |-> IF diff.n = 0 THEN "nan" ELSE "inf", value |-> Rat(0, 1)]
       ELSE [kind |-> "finite", value |-> RatAbs(Rat(diff.n * y_true.d, diff.d * y_true.n))]

RECURSIVE SumErrors(_)
SumErrors(errs) ==
    IF Len(errs) = 0 THEN Rat(0, 1) ELSE RatAdd(errs[1].value, SumErrors(Tail(errs)))

\* the mape of line 421: np.mean(...) * 100; nan wins over inf, and the
\* mean of no points is nan.
Mape(y_true, y_pred) ==
    LET errs == Row([i \in 1..Len(y_true) |-> AbsPctError(y_true[i], y_pred[i])])
        kinds == { errs[i].kind : i \in 1..Len(errs) }
        total == SumErrors(errs)
    IN IF Len(errs) = 0 \/ "nan" \in kinds THEN [kind |-> "nan", value |-> Rat(0, 1)]
       ELSE IF "inf" \in kinds THEN [kind |-> "inf", value |-> Rat(0, 1)]
       ELSE [kind |-> "finite", value |-> Rat(total.n * 100, total.d * Len(errs))]

(* ------------------------------- train -------------------------------- *)
\* the constructor's default batch_size, which train hands to model.fit.
batch_size == 32

\* BulkSalesData.validate_sales_history: the least length of an uploaded
\* sales history.
MinObservations == 30

\* int(len(X) * (1 - validation_split)), the split given in percent.
SplitIdx(len, pct) == (len * (100 - pct)) \div 100

\* a[:split_idx] and a[split_idx:].
TrainPart(a, split_idx) == SubSeq(a, 1, split_idx)

\* the validation part starting one sample early.
ValPartOverlap(a, split_idx) ==
    IF split_idx = 0 THEN a ELSE SubSeq(a, split_idx, Len(a))

ValPart(a, split_idx) == SubSeq(a, split_idx + 1, Len(a))

\* prepare_data's choice of columns (lines 132-135).
FeatureCols(fc) == IF fc = None THEN <<"sales">> ELSE fc

\* model.fit raises on an empty training or validation array; otherwise
\* the backend decides (fitOk).
FitRuns(X_train, X_val, fitOk) == Len(X_train) > 0 /\ Len(X_val) > 0 /\ fitOk

\* LSTMForecaster.train on a forecaster with sequence_length L: the fields
\* it assigns before it returns or raises, and what it returns or raises.

train(df, fc, pct, fitOk, w, L) ==
    LET cols == FeatureCols(fc)
    IN
    IF Len(df) = 0
    THEN \* scaler_X.fit_transform resets the scaler, then rejects 0 samples
         [feature_columns |-> cols, scaler_X |-> Unfit,
          fitted_y |-> FALSE, scaler_y |-> Unfit,
          built |-> FALSE, model |-> NoModel, trained |-> FALSE,
          out |-> [op |-> "train", df |-> df, status |-> "ValueError",
                   windowed |-> FALSE, built |-> FALSE, fitCalled |-> FALSE]]
    ELSE LET sx == ScalerFit(ColValues(df, cols))
             sy == ScalerFit(ColValues(df, <<"sales">>))
             features_scaled == ScalerTransform(sx, ColValues(df, cols))
             target_scaled == ScalerTransform(sy, ColValues(df, <<"sales">>))
             seq == create_sequences(features_scaled, target_scaled, L)
             built == build_model(L, Len(cols))
             split_idx == SplitIdx(Len(seq.X), pct)
             X_train == TrainPart(seq.X, split_idx)
             X_val == ValPart(seq.X, split_idx)
             y_train == TrainPart(seq.y, split_idx)
             y_val == ValPart(seq.y, split_idx)
             ran == FitRuns(X_train, X_val, fitOk)
             fitted == [built EXCEPT !.w = w]
             val_predictions_rescaled ==
                 Row([i \in 1..Len(X_val) |-> ScalerInverse(sy, NetOut(fitted, X_val[i]))])
             y_val_rescaled ==
                 Row([i \in 1..Len(y_val) |-> ScalerInverse(sy, y_val[i][1])])
         IN [feature_columns |-> cols, scaler_X |-> sx,
             fitted_y |-> TRUE, scaler_y |-> sy,
             built |-> TRUE, model |-> IF ran THEN fitted ELSE built,
             trained |-> ran,
             out |-> [op |-> "train", df |-> df,
                      status |-> IF ran THEN "ok" ELSE "ValueError",
                      windowed |-> TRUE, windowStatus |-> "ok",
                      dates |-> Row([i \in 1..Len(df) |-> df[i].date]),
                      X |-> seq.X, y |-> seq.y,
                      built |-> TRUE, fitCalled |-> TRUE,
                      X_train |-> X_train, X_val |-> X_val,
                      y_train |-> y_train, y_val |-> y_val,
                      y_val_rescaled |-> IF ran THEN y_val_rescaled ELSE <<>>,
                      mape |-> IF ran THEN Mape(y_val_rescaled, val_predictions_rescaled)
                               ELSE [kind |-> "none", value |-> Rat(0, 1)],
                      nTrain |-> Len(X_train), nVal |-> Len(X_val)]]

\* every train call of the bounded input space with what it does.
TrainCalls ==
    { [L |-> L, eff |-> train(df, fc, pct, fitOk, w, L)] :
        df \in DataFrames, fc \in FeatureColsArgs, pct \in ValidationSplits,
        fitOk \in BOOLEAN, w \in 0..MaxW, L \in 1..MaxL }

Train(c) ==
    /\ out = NoCall
    /\ c.L = sequence_length
    /\ feature_columns' = c.eff.feature_columns
    /\ scaler_X' = c.eff.scaler_X
    /\ scaler_y' = IF c.eff.fitted_y THEN c.eff.scaler_y ELSE scaler_y
    /\ model' = IF c.eff.built THEN c.eff.model ELSE model
    /\ is_trained' = IF c.eff.trained THEN TRUE ELSE is_trained
    /\ lstmOk' = (lstmOk \/ c.eff.out.status = "ok")
    /\ out' = c.eff.out
    /\ UNCHANGED <<sequence_length, prophetVars, apiVars>>

(* ------------------------------ evaluate ------------------------------ *)
\* what evaluate raises or returns once prepare_data has refitted the
\* scalers on a non-empty test frame.
EvaluateStatus(m, X_test, n_features) ==
    IF m = NoModel THEN "AttributeError"
    ELSE IF Len(X_test) = 0 THEN "ValueError"
    ELSE IF m.n_features # n_features THEN "ValueError"
    ELSE "ok"

\* LSTMForecaster.evaluate: prepare_data assigns feature_columns and
\* fit_transforms both scalers on the test data before anything is
\* predicted; there is no is_trained guard.
Evaluate(test_data) ==
    LET cols == FeatureCols(feature_columns)
        before == [scaler_X |-> scaler_X, scaler_y |-> scaler_y, model |-> model,
                   feature_columns |-> feature_columns, is_trained |-> is_trained]
    IN
    /\ out = NoCall
    /\ feature_columns' = cols
    /\ IF Len(test_data) = 0
       THEN /\ scaler_X' = Unfit
            /\ scaler_y' = scaler_y
            /\ out' = [op |-> "evaluate", df |-> test_data, status |-> "ValueError",
                       before |-> before]
       ELSE LET sx == ScalerFit(ColValues(test_data, cols))
                sy == ScalerFit(ColValues(test_data, <<"sales">>))
                seq == create_sequences(ScalerTransform(sx, ColValues(test_data, cols)),
                                        ScalerTransform(sy, ColValues(test_data, <<"sales">>)),
                                        sequence_length)
                st == EvaluateStatus(model, seq.X, Len(cols))
            IN /\ scaler_X' = sx
               /\ scaler_y' = sy
               /\ out' = [op |-> "evaluate", df |-> test_data, status |-> st,
                          before |-> before,
                          mape |-> IF st = "ok"
                                   THEN Mape(Row([i \in 1..Len(seq.y) |->
                                                     ScalerInverse(sy, seq.y[i][1])]),
                                             Row([i \in 1..Len(seq.X) |->
                                                     ScalerInverse(sy, NetOut(model, seq.X[i]))]))
                                   ELSE [kind |-> "none", value |-> Rat(0, 1)]]
    /\ UNCHANGED <<sequence_length, model, is_trained, lstmOk, prophetVars, apiVars>>

(* ----------------------------- load_model ----------------------------- *)
\* what save_model wrote for a forecaster trained on df with columns cols.
ArtifactOf(df, cols, L, w) ==
    [model |-> [build_model(L, Len(cols)) EXCEPT !.w = w],
     scaler_X |-> ScalerFit(ColValues(df, cols)),
     scaler_y |-> ScalerFit(ColValues(df, <<"sales">>)),
     sequence_length |-> L,
     feature_columns |-> cols]

Artifacts == { ArtifactOf(Frame(4, 1), <<"sales">>, 1, 1),
               ArtifactOf(Frame(5, 2), <<"sales", "dow">>, 2, 0) }

Load(a) ==
    /\ out = NoCall
    /\ sequence_length' = a.sequence_length
    /\ model' = a.model
    /\ scaler_X' = a.scaler_X
    /\ scaler_y' = a.scaler_y
    /\ feature_columns' = a.feature_columns
    /\ is_trained' = TRUE
    /\ lstmOk' = TRUE
    /\ out' = [op |-> "load", status |-> "ok"]
    /\ UNCHANGED <<prophetVars, apiVars>>

(* ------------------------- ProphetForecaster -------------------------- *)
ProphetSplits == { 0, 20, 50 }

\* Prophet.fit: once only, on at least 2 rows; otherwise the backend decides.
ProphetFitStatus(history, train_df, fitOk) ==
    IF history > 0 THEN "Exception: Prophet object can only be fit once"
    ELSE IF Len(train_df) < 2 THEN "ValueError: Dataframe has less than 2 non-NaN rows"
    ELSE IF ~fitOk THEN "RuntimeError: backend"
    ELSE "ok"

\* ProphetForecaster.evaluate: Prophet.predict rejects a frame with no rows.
ProphetEvaluateStatus(test_data) ==
    IF Len(test_data) = 0 THEN "ValueError: Dataframe has no rows" ELSE "ok"

ProphetTrain(df, pct, fitOk) ==
    LET split_idx == SplitIdx(Len(df), pct)
        train_df == TrainPart(df, split_idx)
        val_df == ValPart(df, split_idx)
        fit == ProphetFitStatus(p_history, train_df, fitOk)
        ev == ProphetEvaluateStatus(val_df)
    IN
    /\ out = NoCall
    /\ IF fit # "ok"
       THEN /\ UNCHANGED prophetVars
            /\ out' = [op |-> "prophet.train", df |-> df, pct |-> pct, status |-> fit,
                       train_df |-> train_df, val_df |-> val_df]
       ELSE /\ p_history' = Len(train_df)
            /\ p_is_trained' = TRUE
            /\ p_metrics' = IF ev = "ok" THEN TRUE ELSE p_metrics
            /\ p_ok' = IF ev = "ok" THEN TRUE ELSE p_ok
            /\ out' = [op |-> "prophet.train", df |-> df, pct |-> pct, status |-> ev,
                       train_df |-> train_df, val_df |-> val_df]
    /\ UNCHANGED <<lstmVars, apiVars>>

\* sort_values('ds') with pandas' default sort, which is not stable: the
\* orders of the rows by date, rows of one date in any order.
SortedOrders(df) ==
    { p \in Permutations(1..Len(df)) :
        \A i \in 1..(Len(df) - 1) : df[p[i]].date <= df[p[i + 1]].date }

\* drop_duplicates(subset=['ds'], keep='last').
RECURSIVE DropDuplicatesLast(_)
DropDuplicatesLast(rows) ==
    IF Len(rows) = 0 THEN <<>>
    ELSE IF \E j \in 2..Len(rows) : rows[j].ds = rows[1].ds
         THEN DropDuplicatesLast(Tail(rows))
         ELSE <<rows[1]>> \o DropDuplicatesLast(Tail(rows))

\* ProphetForecaster.prepare_data: the (ds, y) frame, sorted by date, one
\* row per date.
ProphetPrepareData(df, p) ==
    LET prophet_df == Row([i \in 1..Len(df) |-> [ds |-> df[p[i]].date, y |-> df[p[i]].sales]])
    IN
    /\ out = NoCall
    /\ out' = [op |-> "prophet.prepare_data", df |-> df, status |-> "ok",
               result |-> DropDuplicatesLast(prophet_df)]
    /\ UNCHANGED <<lstmVars, prophetVars, apiVars>>

\* ProphetForecaster.predict: the rows returned, and the calls made on the
\* Prophet model (make_future_dataframe, predict).
ProphetPredict(H, include_history) ==
    LET rows == H + (IF include_history THEN p_history ELSE 0)
    IN
    /\ out = NoCall
    /\ out' = IF ~p_is_trained
              THEN [op |-> "prophet.predict", H |-> H,
                    status |-> NotTrainedError, rows |-> 0, modelCalls |-> 0]
              ELSE IF rows = 0
              THEN [op |-> "prophet.predict", H |-> H,
                    status |-> "ValueError: Dataframe has no rows", rows |-> 0,
                    modelCalls |-> 2]
              ELSE [op |-> "prophet.predict", H |-> H,
                    status |-> "ok", rows |-> IF include_history THEN rows ELSE H,
                    modelCalls |-> 2]
    /\ UNCHANGED <<lstmVars, prophetVars, apiVars>>

\* what save_model wrote for a trained ProphetForecaster.
ProphetArtifacts == { [history |-> 4, metrics |-> TRUE] }

\* ProphetForecaster.load_model: is_trained as saved, which save_model
\* only writes as True.
ProphetLoad(a) ==
    /\ out = NoCall
    /\ p_history' = a.history
    /\ p_metrics' = a.metrics
    /\ p_is_trained' = TRUE
    /\ p_ok' = TRUE
    /\ out' = [op |-> "prophet.load", status |-> "ok"]
    /\ UNCHANGED <<lstmVars, apiVars>>

(* --------------------------- api/main.py ------------------------------ *)
Products == { "SKU-1", "SKU-2" }

\* Field(..., ge=1, le=365) of ForecastRequest.horizon_days and
\* Field(..., ge=1, le=90) of BatchForecastRequest.horizon_days.
ForecastHorizonMax == 365

BatchHorizonMax == 90

\* the horizons requested: the small ones and those around the two maxima.
ApiHorizons == (0..MaxHorizon) \cup { BatchHorizonMax, BatchHorizonMax + 1,
                                      ForecastHorizonMax, ForecastHorizonMax + 1 }

\* the model kinds a forecaster exists for, and ModelType with AUTO.
TrainTypes == { "prophet", "lstm" }

ModelTypes == { "arima", "prophet", "lstm", "auto" }

\* a task that is picked up again after it ended.
StartableAgain(t) == t.state \in { "queued", "failed" }

\* a background task is queued by add_task and picked up once.
Startable(t) == t.state = "queued"

\* the GET routes of the app: the literal segments of the path and the
\* number of path parameters that follow them.
GetRoutes ==
    { [prefix |-> <<>>, params |-> 0],
      [prefix |-> <<"health">>, params |-> 0],
      [prefix |-> <<"api", "v1", "sales">>, params |-> 1],
      [prefix |-> <<"api", "v1", "models">>, params |-> 0],
      [prefix |-> <<"api", "v1", "models">>, params |-> 1],
      [prefix |-> <<"api", "v1", "analytics", "accuracy">>, params |-> 0],
      [prefix |-> <<"api", "v1", "analytics", "trends">>, params |-> 1] }

\* the status_endpoint of train_model's response without its last segment,
\* the task id.
StatusEndpoint == <<"api", "v1", "models", "tasks">>

\* a route serves the path made of the segments and one more segment, an
\* id: a path parameter takes exactly one segment.
RouteMatches(route, segments) == route.params = 1 /\ route.prefix = segments

\* ModelTrainingRequest.hyperparameters: None or a dict, as name-value pairs.
HyperparameterArgs == { None, << <<"epochs", 0>> >> }

\* ModelTrainingRequest.validation_split in percent; <<>> when the request
\* leaves it out.
SplitArgs == { <<>>, <<5>>, <<40>>, <<50>> }

\* Field(default=0.2, ge=0.1, le=0.4), in percent.
SplitDefault == 20

SplitMin == 10

SplitMax == 40

ValidSplit(split) == split = <<>> \/ (split[1] >= SplitMin /\ split[1] <= SplitMax)

\* train_model: the request model refuses a validation_split out of range
\* before the handler runs; the handler checks nothing against the tasks in
\* flight, names the task after the clock's second and hands
\* train_model_async the product, the kind and the hyperparameters.
train_model(product_id, model_type, hyperparameters, split) ==
    LET req == [product_id |-> product_id, model_type |-> model_type,
                hyperparameters |-> hyperparameters,
                validation_split |-> IF split = <<>> THEN SplitDefault ELSE split[1]]
    IN
    /\ out = NoCall
    /\ Len(tasks) < MaxTasks
    /\ IF ~ValidSplit(split)
       THEN /\ tasks' = tasks
            /\ out' = [op |-> "train_model", status |-> "422", req |-> req,
                       queued |-> Len(tasks)]
       ELSE /\ tasks' = Append(tasks, [product_id |-> product_id, model_type |-> model_type,
                                       hyperparameters |-> hyperparameters,
                                       task_id |-> now, state |-> "queued",
                                       error |-> "", escaped |-> FALSE])
            /\ out' = [op |-> "train_model", status |-> "202", req |-> req,
                       queued |-> Len(tasks), task_id |-> now,
                       product_id |-> product_id, model_type |-> model_type,
                       status_endpoint |-> Append(StatusEndpoint, now)]
    /\ UNCHANGED <<lstmVars, prophetVars, now, registry, wsVars>>

\* the background task starts once the response is sent: train_model_async
\* logs (line 272).
StartTask(i) ==
    /\ out = NoCall
    /\ Startable(tasks[i])
    /\ tasks' = [tasks EXCEPT ![i].state = "running"]
    /\ UNCHANGED <<lstmVars, prophetVars, now, registry, wsVars, out>>

\* line 274 names asyncio, which the module never imports: the coroutine
\* ends with a NameError that nothing catches or records, and nothing
\* registers a model.
RunTask(i) ==
    /\ out = NoCall
    /\ tasks[i].state = "running"
    /\ tasks' = [tasks EXCEPT ![i].state = "failed", ![i].escaped = TRUE]
    /\ UNCHANGED <<lstmVars, prophetVars, now, registry, wsVars, out>>

Tick ==
    /\ out = NoCall
    /\ now < MaxClock
    /\ now' = now + 1
    /\ UNCHANGED <<lstmVars, prophetVars, tasks, registry, wsVars, out>>

\* GET of the status_endpoint of a task id: the router finds no route for
\* it, whatever the id.
get_task_status(task_id) ==
    /\ out = NoCall
    /\ out' = IF \E route \in GetRoutes : RouteMatches(route, StatusEndpoint)
              THEN [op |-> "get_task_status", task_id |-> task_id, status |-> "200"]
              ELSE [op |-> "get_task_status", task_id |-> task_id, status |-> "404"]
    /\ UNCHANGED <<lstmVars, prophetVars, apiVars>>

\* select_best_model: the placeholder's answer (line 261).
select_best_model(product_id, available_models) == "prophet"

\* the placeholder prediction with every date one day after today.
ForecastPointSameDay(i, intervals) ==
    [day |-> 1, predicted_sales |-> 200 + i,
     has_bounds |-> intervals,
     lower_bound |-> IF intervals THEN 180 + i ELSE 0,
     upper_bound |-> IF intervals THEN 220 + i ELSE 0]

\* the placeholder prediction with its bounds filled in whatever was asked.
ForecastPointBounded(i, intervals) ==
    [day |-> i, predicted_sales |-> 200 + i,
     has_bounds |-> TRUE,
     lower_bound |-> 180 + i,
     upper_bound |-> 220 + i]

\* the placeholder predictions of lines 399-407: the date as days after
\* today, the amounts in halves.
ForecastPoint(i, intervals) ==
    [day |-> i, predicted_sales |-> 200 + i,
     has_bounds |-> intervals,
     lower_bound |-> IF intervals THEN 180 + i ELSE 0,
     upper_bound |-> IF intervals THEN 220 + i ELSE 0]

\* sum(p.predicted_sales for p in predictions), added up by halves of the list.
RECURSIVE SumSales(_)
SumSales(ps) ==
    IF Len(ps) = 0 THEN 0
    ELSE IF Len(ps) = 1 THEN ps[1].predicted_sales
    ELSE LET mid == Len(ps) \div 2
         IN SumSales(SubSeq(ps, 1, mid)) + SumSales(SubSeq(ps, mid + 1, Len(ps)))

\* generate_forecast; a horizon outside 1..365 is refused by the request model.
generate_forecast(product_id, H, model_type, intervals, level) ==
    LET req == [product_id |-> product_id, horizon_days |-> H, model_type |-> model_type,
                include_confidence_intervals |-> intervals, confidence_level |-> level]
        chosen == IF model_type = "auto"
                  THEN select_best_model(product_id, <<"prophet", "lstm", "arima">>)
                  ELSE model_type
        predictions == Row([i \in 1..H |-> ForecastPoint(i, intervals)])
    IN
    /\ out = NoCall
    /\ out' = IF H < 1 \/ H > ForecastHorizonMax
              THEN [op |-> "generate_forecast", req |-> req, status |-> "422"]
              ELSE [op |-> "generate_forecast", req |-> req, status |-> "200",
                    product_id |-> product_id, model_type |-> chosen,
                    horizon_days |-> H, predictions |-> predictions,
                    total_predicted_sales |-> SumSales(predictions),
                    has_confidence_level |-> intervals,
                    confidence_level |-> IF intervals THEN level ELSE 0]
    /\ UNCHANGED <<lstmVars, prophetVars, apiVars>>

\* one placeholder entry of the batch (lines 446-456).
BatchEntry(product_id, include_metrics) ==
    [product_id |-> product_id, model_type |-> "prophet", total_predicted |-> 3000,
     has_metrics |-> include_metrics, error |-> ""]

generate_batch_forecasts(product_ids, H, model_type, include_metrics) ==
    LET req == [product_ids |-> product_ids, horizon_days |-> H, model_type |-> model_type,
                include_metrics |-> include_metrics]
        forecasts == Row([i \in 1..Len(product_ids) |->
                             BatchEntry(product_ids[i], include_metrics)])
    IN
    /\ out = NoCall
    /\ out' = IF H < 1 \/ H > BatchHorizonMax
              THEN [op |-> "generate_batch_forecasts", req |-> req, status |-> "422"]
              ELSE [op |-> "generate_batch_forecasts", req |-> req, status |-> "200",
                    total_forecasts |-> Len(forecasts), horizon_days |-> H,
                    forecasts |-> forecasts]
    /\ UNCHANGED <<lstmVars, prophetVars, apiVars>>

\* a direct call of the selector.
SelectBest(product_id, available_models) ==
    /\ out = NoCall
    /\ out' = [op |-> "select_best_model", product_id |-> product_id,
               available_models |-> available_models, status |-> "ok",
               result |-> select_best_model(product_id, available_models)]
    /\ UNCHANGED <<lstmVars, prophetVars, apiVars>>

(* ------------------------ the model registry -------------------------- *)
\* one persisted TrainedModel per product and kind, or none.
NoEntry == [trained |-> FALSE, mape |-> 0, rmse |-> 0, trained_at |-> 0]

Entries == { NoEntry } \cup
           [trained : {TRUE}, mape : 1..MaxMetric, rmse : 1..MaxMetric,
            trained_at : 1..MaxMetric]

\* SKU-1 with any trained models, SKU-2 the product nothing was trained for.
Registries ==
    { [p \in Products |-> IF p = "SKU-1" THEN r ELSE [k \in TrainTypes |-> NoEntry]] :
        r \in [TrainTypes -> Entries] }

TrainedKinds(p) == { k \in TrainTypes : registry[p][k].trained }

(* --------------------------- initial states --------------------------- *)
LstmInit ==
    /\ is_trained = FALSE
    /\ feature_columns = None
    /\ scaler_X = Unfit
    /\ scaler_y = Unfit
    /\ model = NoModel
    /\ lstmOk = FALSE

ProphetInit ==
    /\ p_is_trained = FALSE
    /\ p_history = 0
    /\ p_metrics = FALSE
    /\ p_ok = FALSE

(* ------------- ecommerce-analytics: ConnectionManager ---------------- *)
\* the websockets that may reach /ws/dashboard
WebSockets == 1..MaxSockets

\* the elements of a list
Range(l) == { l[i] : i \in 1..Len(l) }

\* list.remove(x): the list without the first occurrence of x
ListRemove(l, x) ==
    LET at == CHOOSE i \in 1..Len(l) : l[i] = x /\ \A j \in 1..(i - 1) : l[j] # x
    IN  [k \in 1..(Len(l) - 1) |-> IF k < at THEN l[k] ELSE l[k + 1]]

\* no broadcast has run yet
NoBroadcast == [pc |-> "idle", i |-> 0, delivered |-> {}, failed |-> {}, stayed |-> {}]

\* ConnectionManager.__init__ (line 50): no connection; no handler has started.
WsInit ==
    /\ active_connections = <<>>
    /\ sockets = [ws \in WebSockets |-> "new"]
    /\ broadcast = NoBroadcast

\* websocket_dashboard reaches manager.connect (line 226): the websocket is
\* accepted and appended to the list.
connect(websocket) ==
    /\ sockets[websocket] = "new"
    /\ sockets' = [sockets EXCEPT ![websocket] = "open"]
    /\ active_connections' = Append(active_connections, websocket)
    /\ UNCHANGED broadcast

\* the peer goes away while its handler waits in receive_text (line 230):
\* from now on a send to this websocket raises.
PeerLeaves(websocket) ==
    /\ sockets[websocket] = "open"
    /\ sockets' = [sockets EXCEPT ![websocket] = "gone"]
    /\ UNCHANGED <<active_connections, broadcast>>

\* the handler's receive_text raises WebSocketDisconnect (line 240) and the
\* handler calls manager.disconnect (line 241): list.remove, while a
\* broadcast may be suspended at a send.
disconnect(websocket) ==
    /\ sockets[websocket] = "gone"
    /\ websocket \in Range(active_connections)
    /\ sockets' = [sockets EXCEPT ![websocket] = "closed"]
    /\ active_connections' = ListRemove(active_connections, websocket)
    /\ broadcast' = [broadcast EXCEPT !.stayed = @ \ {websocket}]

\* broadcast is called (line 64): the for statement takes an iterator over
\* the list itself (line 68), at index 0.
BroadcastStart ==
    /\ broadcast.pc # "sending"
    /\ broadcast' = [pc |-> "sending", i |-> 0, delivered |-> {}, failed |-> {},
                     stayed |-> Range(active_connections)]
    /\ UNCHANGED <<active_connections, sockets>>

\* one round of the loop (lines 68-72): the iterator yields the element at
\* its index in the list as it is now and advances; the send succeeds or
\* raises, and the exception is logged only. The coroutine is suspended at
\* the await, so other handlers run between two rounds.
BroadcastSend ==
    /\ broadcast.pc = "sending"
    /\ broadcast.i < Len(active_connections)
    /\ LET connection == active_connections[broadcast.i + 1]
       IN  broadcast' =
              IF sockets[connection] = "open"
              THEN [broadcast EXCEPT !.i = @ + 1, !.delivered = @ \cup {connection}]
              ELSE [broadcast EXCEPT !.i = @ + 1, !.failed = @ \cup {connection}]
    /\ UNCHANGED <<active_connections, sockets>>

\* the iterator's index has reached the end of the list: the loop and the
\* broadcast end.
BroadcastEnd ==
    /\ broadcast.pc = "sending"
    /\ broadcast.i >= Len(active_connections)
    /\ broadcast' = [broadcast EXCEPT !.pc = "done"]
    /\ UNCHANGED <<active_connections, sockets>>

NoRegistry == [p \in Products |-> [k \in TrainTypes |-> NoEntry]]

ApiInit ==
    /\ tasks = <<>>
    /\ now = 0
    /\ WsInit

\* the caller takes the result; the next call can start.
Return ==
    /\ out # NoCall
    /\ out' = NoCall
    /\ UNCHANGED <<lstmVars, prophetVars, apiVars>>

(* ------------------- specification: LSTMForecaster -------------------- *)
Init ==
    /\ sequence_length \in 1..MaxL
    /\ LstmInit
    /\ ProphetInit
    /\ ApiInit
    /\ registry = NoRegistry
    /\ out = NoCall

TrainStep == \E c \in TrainCalls : Train(c)

PredictStep == \E df \in DataFrames, H \in 0..MaxHorizon, recursive \in BOOLEAN :
                  Predict(df, H, recursive)

LoadStep == \E a \in Artifacts : Load(a)

EvaluateStep == \E test_data \in DataFrames : Evaluate(test_data)

Next == TrainStep \/ PredictStep \/ LoadStep \/ EvaluateStep \/ Return

Spec == Init /\ [][Next]_vars

(* ------------------ specification: ProphetForecaster ------------------ *)
InitProphet ==
    /\ sequence_length = 1
    /\ LstmInit
    /\ ProphetInit
    /\ ApiInit
    /\ registry = NoRegistry
    /\ out = NoCall

ProphetTrainStep == \E df \in DataFrames, pct \in ProphetSplits, fitOk \in BOOLEAN :
                       ProphetTrain(df, pct, fitOk)

ProphetPredictStep == \E H \in 0..MaxHorizon, include_history \in BOOLEAN :
                         ProphetPredict(H, include_history)

ProphetLoadStep == \E a \in ProphetArtifacts : ProphetLoad(a)

ProphetPrepareStep == \E df \in DataFrames : \E p \in SortedOrders(df) :
                         ProphetPrepareData(df, p)

NextProphet == ProphetTrainStep \/ ProphetPredictStep \/ ProphetLoadStep
                  \/ ProphetPrepareStep \/ Return

SpecProphet == InitProphet /\ [][NextProphet]_vars

(* ------------- specification: training of both forecasters ----------- *)
InitTrain ==
    /\ sequence_length \in 1..MaxL
    /\ LstmInit
    /\ ProphetInit
    /\ ApiInit
    /\ registry = NoRegistry
    /\ out = NoCall

NextTrain == TrainStep \/ ProphetTrainStep \/ Return

SpecTrain == InitTrain /\ [][NextTrain]_vars

(* -------------------- specification: training tasks ------------------ *)
InitTasks ==
    /\ sequence_length = 1
    /\ LstmInit
    /\ ProphetInit
    /\ ApiInit
    /\ registry = NoRegistry
    /\ out = NoCall

SubmitStep == \E p \in Products, t \in TrainTypes, hp \in HyperparameterArgs,
                 split \in SplitArgs : train_model(p, t, hp, split)

StartStep == \E i \in 1..Len(tasks) : StartTask(i)

RunStep == \E i \in 1..Len(tasks) : RunTask(i)

StatusStep == \E id \in 0..(MaxClock + 1) : get_task_status(id)

NextTasks == SubmitStep \/ StartStep \/ RunStep \/ StatusStep \/ Tick \/ Return

SpecTasks == InitTasks /\ [][NextTasks]_vars

(* ---------------------- specification: forecasts ---------------------- *)
InitForecast ==
    /\ sequence_length = 1
    /\ LstmInit
    /\ ProphetInit
    /\ ApiInit
    /\ registry \in Registries
    /\ out = NoCall

ProductLists == { <<p>> : p \in Products } \cup { <<p, q>> : p \in Products, q \in Products }

ForecastStep == \E p \in Products, H \in ApiHorizons, t \in ModelTypes,
                   intervals \in BOOLEAN, level \in {90, 95} :
                   generate_forecast(p, H, t, intervals, level)

BatchStep == \E ps \in ProductLists, H \in ApiHorizons, t \in ModelTypes,
                include_metrics \in BOOLEAN :
                generate_batch_forecasts(ps, H, t, include_metrics)

SelectStep == \E p \in Products,
                 av \in { <<"prophet", "lstm", "arima">>, <<"lstm">> } : SelectBest(p, av)

NextForecast == ForecastStep \/ BatchStep \/ SelectStep \/ Return

SpecForecast == InitForecast /\ [][NextForecast]_vars

(* ------------------- claims on the LSTMForecaster --------------------- *)
\* the history a predict call was given, as predict normalizes it.
HistoryScaled == ScalerTransform(scaler_X, ColValues(out.df, feature_columns))

\* the series a train call windowed: the normalized features and target.
TrainData == ScalerTransform(scaler_X, ColValues(out.df, feature_columns))

TrainTarget == ScalerTransform(scaler_y, ColValues(out.df, <<"sales">>))

\* C1: recursive forecasting with horizon H >= 1 on a trained model returns
\* exactly H predictions, whatever history is given as context (also one
\* shorter than the window length).
C1_RecursiveReturnsH ==
    (out.op = "predict" /\ out.recursive /\ out.H >= 1 /\ Len(out.df) >= 1
        /\ is_trained /\ lstmOk)
        => (out.r.status = "ok" /\ Len(out.r.preds) = out.H)

\* C2: for N > L the windower yields exactly N - L pairs; pair i (from 0)
\* has the rows i..i+L-1 in order as input and the value at i+L as target.
C2_WindowPairs ==
    (out.op = "train" /\ out.windowed /\ Len(out.df) > sequence_length)
        => LET N == Len(out.df)
               L == sequence_length
           IN /\ Len(out.X) = N - L
              /\ Len(out.y) = N - L
              /\ \A i \in 0..(N - L - 1) :
                    /\ Len(out.X[i + 1]) = L
                    /\ \A k \in 0..(L - 1) : out.X[i + 1][k + 1] = TrainData[i + k + 1]
                    /\ out.y[i + 1] = TrainTarget[i + L + 1]

C2_Witness ==
    /\ out.op = "train"
    /\ out.windowed
    /\ sequence_length = 2
    /\ Len(out.df) = 5
    /\ Len(out.X) = 3

\* C3: with N <= L windowing fails with InsufficientDataError; it never
\* returns an empty set of pairs that training goes on with.
C3_ShortSeriesRejected ==
    (out.op = "train" /\ out.windowed /\ Len(out.df) <= sequence_length)
        => (out.windowStatus = "InsufficientDataError" /\ ~out.built /\ ~out.fitCalled)

\* C4: in direct mode at most len(history) - L and at most horizon_days
\* predictions are returned, and every input window handed to the model is
\* a contiguous run of exactly L rows of the real history.
C4_DirectBounded ==
    (out.op = "predict" /\ ~out.recursive /\ is_trained)
        => LET n == Len(out.df)
               L == sequence_length
           IN /\ out.r.status = "ok" =>
                    (Len(out.r.preds) <= n - L /\ Len(out.r.preds) <= out.H)
              /\ \A c \in 1..Len(out.r.calls) :
                    \E a \in 0..(n - L) :
                        /\ Len(out.r.calls[c]) = L
                        /\ \A k \in 1..L : out.r.calls[c][k] = HistoryScaled[a + k]

\* the values sent through the scaler: those of the frames and one below
\* and one above them.
ProbeValues == (0 - 1)..4

\* C20: under the fitted target scaler inverse_transform(transform(x)) is x
\* for every x, also outside the fitted range, and the transform of a
\* history that leaves the fitted range does not fail in a predict call.
C20_ScalerRoundTrip ==
    /\ scaler_y # Unfit
          => \A x \in ProbeValues :
                RatEq(ScalerInverse(scaler_y, ScalerTransformRow(scaler_y, <<x>>)[1]),
                      Rat(x, 1))
    /\ (out.op = "predict" /\ is_trained /\ scaler_X # Unfit /\ Len(out.df) >= 1)
          => out.r.failed_at # "transform"

C20_Witness ==
    /\ out.op = "predict"
    /\ out.r.status = "ok"
    /\ scaler_y # Unfit
    /\ scaler_y[1].max > scaler_y[1].min
    /\ \E i \in 1..Len(out.df) : out.df[i].sales > scaler_y[1].max
    /\ \E i \in 1..Len(out.df) : out.df[i].sales < scaler_y[1].min

\* C21: in recursive forecasting every window after the first has exactly
\* L rows: the previous window without its oldest row, followed by one new
\* row that carries the previous step's normalized prediction.
C21_SlidingWindow ==
    (out.op = "predict" /\ out.recursive /\ out.r.status = "ok")
        => /\ Len(out.r.calls) = out.H
           /\ \A k \in 1..Len(out.r.calls) : Len(out.r.calls[k]) = sequence_length
           /\ \A k \in 2..Len(out.r.calls) :
                 LET prev == out.r.calls[k - 1]
                     cur == out.r.calls[k]
                 IN /\ SubSeq(cur, 1, Len(cur) - 1) = Tail(prev)
                    /\ \E j \in 1..Len(cur[Len(cur)]) :
                          cur[Len(cur)][j] = out.r.scaled[k - 1]

\* two frames that differ at most in their last row, which a train call
\* with a non-empty validation part only uses as the last validation target.
SameButTail(a, b) ==
    /\ Len(a) = Len(b)
    /\ \A i \in 1..(Len(a) - 1) : a[i] = b[i]

\* C22: the fitted scalers are determined by the training slice only: a
\* training run on data that differs only in the held-out validation tail
\* ends with the same fitted scalers.
C22_ScalerFromTrainingSlice ==
    (out.op = "train" /\ out.windowed /\ out.nTrain >= 1 /\ out.nVal >= 1)
        => \A c \in TrainCalls :
              (/\ c.L = sequence_length
               /\ c.eff.feature_columns = feature_columns
               /\ SameButTail(c.eff.out.df, out.df))
                  => (c.eff.scaler_X = scaler_X /\ c.eff.scaler_y = scaler_y)

StrictlyIncreasing(dates) == \A i \in 1..(Len(dates) - 1) : dates[i] < dates[i + 1]

\* the sales of the last row of df that has the date.
LatestSales(df, date) ==
    LET last == CHOOSE i \in 1..Len(df) :
                   /\ df[i].date = date
                   /\ \A j \in (i + 1)..Len(df) : df[j].date # date
    IN df[last].sales

\* C23: the series a model is fed has strictly increasing, unique
\* timestamps, and of the rows of one timestamp the value kept is the one
\* recorded latest in the input; for the LSTM and for Prophet.
C23_PreparedSeriesOrdered ==
    /\ (out.op = "train" /\ out.windowed) => StrictlyIncreasing(out.dates)
    /\ (out.op = "prophet.prepare_data")
          => /\ StrictlyIncreasing([i \in 1..Len(out.result) |-> out.result[i].ds])
             /\ \A i \in 1..Len(out.result) :
                   out.result[i].y = LatestSales(out.df, out.result[i].ds)

\* C24: points whose actual value is zero are left out of the MAPE, so the
\* MAPE a training reports is a finite, non-negative number whenever at
\* least one actual value of the validation part is not zero.
C24_MapeSkipsZeroActuals ==
    (out.op = "train" /\ out.status = "ok"
        /\ \E i \in 1..Len(out.y_val_rescaled) : out.y_val_rescaled[i].n # 0)
        => (out.mape.kind = "finite" /\ out.mape.value.n * out.mape.value.d >= 0)

\* the feature slot that holds the target column.
TargetSlot(cols) == CHOOSE j \in 1..Len(cols) : cols[j] = "sales"

\* C26: in recursive forecasting each step's prediction is written into the
\* feature slot of the target, whatever the order of the feature columns,
\* and every other slot of the new row is left as the last row had it.
C26_PredictionInTargetSlot ==
    (out.op = "predict" /\ out.recursive /\ out.r.status = "ok"
        /\ \E j \in 1..Len(feature_columns) : feature_columns[j] = "sales")
        => \A k \in 2..Len(out.r.calls) :
              LET last == out.r.calls[k - 1][Len(out.r.calls[k - 1])]
                  new == out.r.calls[k][Len(out.r.calls[k])]
              IN \A j \in 1..Len(new) :
                    new[j] = IF j = TargetSlot(feature_columns)
                             THEN out.r.scaled[k - 1] ELSE last[j]

\* C27: evaluate leaves the fitted state of a trained forecaster as it
\* was: the scalers, the feature columns and the model after the call are
\* those before it, so that predict answers the same before and after.
C27_EvaluateKeepsFittedState ==
    (out.op = "evaluate" /\ out.before.is_trained)
        => /\ scaler_X = out.before.scaler_X
           /\ scaler_y = out.before.scaler_y
           /\ feature_columns = out.before.feature_columns
           /\ model = out.before.model

\* C28: a train call that fails leaves the forecaster's model, scalers and
\* is_trained as they were before the call, so that a forecaster with
\* is_trained set holds the model and scalers of its last successful train
\* or load.
C28_FailedTrainKeepsState ==
    [][ (is_trained /\ out.op = "none" /\ out'.op = "train" /\ out'.status # "ok")
            => /\ is_trained'
               /\ model' = model
               /\ scaler_X' = scaler_X
               /\ scaler_y' = scaler_y ]_vars

(* ------------------ claims on both forecasters' guard ----------------- *)
\* C5: predict on a forecaster (LSTM or Prophet) that has had no successful
\* train or load fails with the not-trained error and calls nothing on the
\* underlying model; after a successful train or load it does not fail so.
C5_PredictNeedsTraining ==
    /\ (out.op = "prophet.predict" /\ ~p_ok)
          => (out.status = NotTrainedError /\ out.modelCalls = 0)
    /\ (out.op = "prophet.predict" /\ p_ok) => out.status # NotTrainedError
    /\ (out.op = "predict" /\ ~lstmOk)
          => (out.r.status = NotTrainedError /\ Len(out.r.calls) = 0)
    /\ (out.op = "predict" /\ lstmOk) => out.r.status # NotTrainedError

(* ---------------------- claims on the training tasks ------------------ *)
TaskMoves == { <<"queued", "running">>, <<"running", "completed">>,
               <<"running", "failed">> }

InFlight(t) == t.state \in { "queued", "running" }

\* C7: at most one training task is queued or running per (entity, model
\* kind): a second submission for such a pair is rejected and enqueues nothing.
C7_OneInFlightPerPair ==
    \A i, j \in 1..Len(tasks) :
        (i < j /\ InFlight(tasks[i]) /\ InFlight(tasks[j]))
            => <<tasks[i].product_id, tasks[i].model_type>>
                   # <<tasks[j].product_id, tasks[j].model_type>>

\* C14: an exception raised while a training task runs is caught and
\* recorded in the task's error field, the task moving to failed; it never
\* leaves the task towards the submitter or the worker pool.
C14_FailureCaptured ==
    \A i \in 1..Len(tasks) :
        tasks[i].state = "failed" => (tasks[i].error # "" /\ ~tasks[i].escaped)

\* C17: a training submission with validation_split out of its declared
\* range is refused before anything is enqueued; an accepted one enqueues a
\* task that carries the validation_split that was validated, so that the
\* training uses it.
C17_ValidatedSplitUsed ==
    (out.op = "train_model")
        => IF out.req.validation_split \in SplitMin..SplitMax
           THEN /\ out.status = "202"
                /\ Len(tasks) = out.queued + 1
                /\ "validation_split" \in DOMAIN tasks[Len(tasks)]
                /\ tasks[Len(tasks)].validation_split = out.req.validation_split
           ELSE /\ out.status = "422"
                /\ Len(tasks) = out.queued

\* C19: a task id returned by a training submission can be looked up at the
\* status location of the response and the lookup gives the task's current
\* state; the lookup of an id never issued fails as not found.
C19_TaskStatusLookup ==
    (out.op = "get_task_status")
        => IF \E i \in 1..Len(tasks) : tasks[i].task_id = out.task_id
           THEN /\ out.status = "200"
                /\ \E i \in 1..Len(tasks) :
                      tasks[i].task_id = out.task_id /\ out.state = tasks[i].state
           ELSE out.status = "404"

\* C29: task ids are unique: two accepted training submissions, also two
\* made within the same second, get different task_id values.
C29_TaskIdsUnique ==
    \A i, j \in 1..Len(tasks) : i # j => tasks[i].task_id # tasks[j].task_id

(* ------------------------ claims on the forecasts --------------------- *)
\* the entity has no trained model of the kind asked for.
NotTrainedFor(p, t) == IF t = "auto" THEN TrainedKinds(p) = {} ELSE t \notin TrainedKinds(p)

\* C8: a batch forecast holds one entry per requested entity, an error
\* marker for each entity that fails (no trained model) and a forecast for
\* each other entity; one entity's failure raises nothing to the caller.
C8_BatchIsolation ==
    (out.op = "generate_batch_forecasts" /\ out.req.horizon_days >= 1)
        => /\ out.status = "200"
           /\ Len(out.forecasts) = Len(out.req.product_ids)
           /\ \A i \in 1..Len(out.forecasts) :
                 /\ out.forecasts[i].product_id = out.req.product_ids[i]
                 /\ (out.forecasts[i].error # "")
                       <=> NotTrainedFor(out.req.product_ids[i], out.req.model_type)

\* a beats or ties b: lower MAPE, then lower RMSE, then later trained_at.
AtLeastAsGood(a, b) ==
    \/ a.mape < b.mape
    \/ a.mape = b.mape /\ a.rmse < b.rmse
    \/ a.mape = b.mape /\ a.rmse = b.rmse /\ a.trained_at >= b.trained_at

IsBestKind(p, k) ==
    /\ k \in TrainedKinds(p)
    /\ \A other \in TrainedKinds(p) : AtLeastAsGood(registry[p][k], registry[p][other])

\* C9: auto-selection returns, among the entity's trained kinds, the one
\* with the lowest validation MAPE, ties broken by lowest RMSE and then by
\* the latest trained_at.
C9_SelectsLowestMape ==
    /\ (out.op = "select_best_model" /\ TrainedKinds(out.product_id) # {})
          => IsBestKind(out.product_id, out.result)
    /\ (out.op = "generate_forecast" /\ out.status = "200" /\ out.req.model_type = "auto"
          /\ TrainedKinds(out.product_id) # {})
          => IsBestKind(out.product_id, out.model_type)

\* C10: with no trained model for the entity, auto-selection fails with
\* NoTrainedModelError, and so does a forecast of kind auto; no kind is
\* returned by default.
C10_NoTrainedModelError ==
    /\ (out.op = "select_best_model" /\ TrainedKinds(out.product_id) = {})
          => out.status = "NoTrainedModelError"
    /\ (out.op = "generate_forecast" /\ out.req.model_type = "auto"
          /\ out.req.horizon_days >= 1 /\ TrainedKinds(out.req.product_id) = {})
          => out.status = "NoTrainedModelError"

\* C11: on the single and the batch forecast path a horizon is accepted
\* exactly when it lies in 1..365, the one engine-wide maximum; any other
\* horizon is refused and yields no predictions.
C11_HorizonRange ==
    (out.op \in { "generate_forecast", "generate_batch_forecasts" })
        => IF out.req.horizon_days \in 1..ForecastHorizonMax
           THEN out.status = "200"
           ELSE out.status = "422"

\* C13: a forecast request with horizon_days = H that is served returns
\* exactly H predictions with strictly increasing dates, and with intervals
\* asked for every prediction has lower_bound <= value <= upper_bound.
C13_ForecastShape ==
    (out.op = "generate_forecast" /\ out.status = "200")
        => /\ Len(out.predictions) = out.req.horizon_days
           /\ \A i \in 1..(Len(out.predictions) - 1) :
                 out.predictions[i].day < out.predictions[i + 1].day
           /\ out.req.include_confidence_intervals
                 => \A i \in 1..Len(out.predictions) :
                       /\ out.predictions[i].has_bounds
                       /\ out.predictions[i].lower_bound <= out.predictions[i].predicted_sales
                       /\ out.predictions[i].predicted_sales <= out.predictions[i].upper_bound

C13_Witness ==
    /\ out.op = "generate_forecast"
    /\ out.status = "200"
    /\ out.req.horizon_days = 3
    /\ out.req.include_confidence_intervals
    /\ Len(out.predictions) = 3

\* C25: a forecast asked for without confidence intervals has no bound on
\* any prediction and no confidence level; one asked for with intervals has
\* both bounds on every prediction and the confidence level of the request.
C25_IntervalsOptional ==
    (out.op = "generate_forecast" /\ out.status = "200")
        => IF out.req.include_confidence_intervals
           THEN /\ \A i \in 1..Len(out.predictions) : out.predictions[i].has_bounds
                /\ out.has_confidence_level
                /\ out.confidence_level = out.req.confidence_level
           ELSE /\ \A i \in 1..Len(out.predictions) : ~out.predictions[i].has_bounds
                /\ ~out.has_confidence_level

C25_Witness ==
    /\ out.op = "generate_forecast"
    /\ out.status = "200"
    /\ ~out.req.include_confidence_intervals
    /\ Len(out.predictions) = 2
    /\ ~out.predictions[2].has_bounds
    /\ ~out.has_confidence_level

(* ------------------------ claims on the training ---------------------- *)
\* C12: train splits the samples, in their given order, into a training
\* part and a validation part that is the tail: the parts are disjoint,
\* cover every sample and keep the order, every training sample coming
\* before every validation sample (LSTM windows and targets, Prophet rows).
C12_ValidationTail ==
    /\ (out.op = "train" /\ out.windowed)
          => /\ out.X_train \o out.X_val = out.X
             /\ out.y_train \o out.y_val = out.y
             /\ Len(out.X_train) = Len(out.y_train)
    /\ (out.op = "prophet.train") => out.train_df \o out.val_df = out.df

C12_Witness ==
    /\ p_ok
    /\ p_history >= 2
    /\ out.op = "train"
    /\ out.status = "ok"
    /\ Len(out.X_train) >= 2
    /\ Len(out.X_val) >= 2

\* C16: training never starts on a series of fewer than 30 observations:
\* train refuses it before anything is fitted.
C16_MinimumObservations ==
    (out.op = "train" /\ Len(out.df) < MinObservations)
        => (out.status # "ok" /\ ~out.fitCalled)

\* C18: train fails with InsufficientDataError, before fitting and without
\* marking the model trained, when the series yields fewer windows than one
\* full batch.
C18_FullBatchRequired ==
    (out.op = "train" /\ out.windowed /\ Len(out.X) < batch_size)
        => (out.status # "ok" /\ out.windowStatus = "InsufficientDataError"
               /\ ~out.fitCalled)

(* ---------------- specification: ConnectionManager ------------------ *)
InitWs ==
    /\ sequence_length = 1
    /\ LstmInit
    /\ ProphetInit
    /\ ApiInit
    /\ registry = NoRegistry
    /\ out = NoCall

ConnectStep == \E websocket \in WebSockets : connect(websocket)

PeerLeavesStep == \E websocket \in WebSockets : PeerLeaves(websocket)

DisconnectStep == \E websocket \in WebSockets : disconnect(websocket)

WsFrame == UNCHANGED <<lstmVars, prophetVars, tasks, now, registry, out>>

NextWs ==
    \/ ConnectStep /\ WsFrame
    \/ PeerLeavesStep /\ WsFrame
    \/ DisconnectStep /\ WsFrame
    \/ BroadcastStart /\ WsFrame
    \/ BroadcastSend /\ WsFrame
    \/ BroadcastEnd /\ WsFrame

SpecWs == InitWs /\ [][NextWs]_vars

\* C30: a finished broadcast has delivered the message to every websocket
\* that stayed in active_connections, open, from its start to its end, whatever
\* sends failed and whatever other websockets disconnected meanwhile; and
\* active_connections holds, once each, exactly the websockets that connected
\* and have not disconnected.
C30_BroadcastReachesAll ==
    /\ broadcast.pc = "done"
          => \A ws \in broadcast.stayed : sockets[ws] = "open" => ws \in broadcast.delivered
    /\ Range(active_connections) = { ws \in WebSockets : sockets[ws] \in {"open", "gone"} }
    /\ Len(active_connections) = Cardinality(Range(active_connections))

====
